---- MODULE Spec2Model ----
(***************************************************************************)
(* Model of git-rewrite-commits: the rewrite engine                        *)
(* (GitCommitRewriter.rewrite), the repository accessor (GitRepo) with its *)
(* filter-branch based rewrite primitive, and the quality scorer.          *)
(*                                                                         *)
(* Text is a sequence of one-character strings.  The repository is an      *)
(* object store of commits (tree, raw message, parent) addressed by        *)
(* content, plus a map of refs.                                            *)
(***************************************************************************)
EXTENDS Integers, Sequences, FiniteSets, TLC

\* ------------------------------------------------------------------ bounds
\* Longest history the repository starts with.
MaxLen == 2

\* ------------------------------------------------------------------- text
NL == "\n"
None == "None"

Drop(s, n) == SubSeq(s, n + 1, Len(s))

HasPrefix(s, p) == Len(s) >= Len(p) /\ SubSeq(s, 1, Len(p)) = p

Whitespace == {" ", NL, "\t"}

RECURSIVE LStrip(_, _)
LStrip(s, chars) ==
    IF s # <<>> /\ Head(s) \in chars THEN LStrip(Tail(s), chars) ELSE s

RECURSIVE RStrip(_, _)
RStrip(s, chars) ==
    IF s # <<>> /\ s[Len(s)] \in chars
    THEN RStrip(SubSeq(s, 1, Len(s) - 1), chars) ELSE s

\* str.strip(chars): removes the characters from both ends.
StripChars(s, chars) == RStrip(LStrip(s, chars), chars)

\* str.strip(): removes whitespace from both ends.
Strip(s) == StripChars(s, Whitespace)

UpperCase == <<"A","B","C","D","E","F","G","H","I","J","K","L","M",
               "N","O","P","Q","R","S","T","U","V","W","X","Y","Z">>
LowerCase == <<"a","b","c","d","e","f","g","h","i","j","k","l","m",
               "n","o","p","q","r","s","t","u","v","w","x","y","z">>

IsLower(c) == \E k \in 1..26 : LowerCase[k] = c

LowerChar(c) ==
    IF \E k \in 1..26 : UpperCase[k] = c
    THEN LowerCase[CHOOSE k \in 1..26 : UpperCase[k] = c]
    ELSE c

UpperChar(c) ==
    IF \E k \in 1..26 : LowerCase[k] = c
    THEN UpperCase[CHOOSE k \in 1..26 : LowerCase[k] = c]
    ELSE c

\* str.lower()
Lower(s) == [k \in 1..Len(s) |-> LowerChar(s[k])]

\* message.split("\n")[0]
FirstLine(s) ==
    IF \E k \in 1..Len(s) : s[k] = NL
    THEN SubSeq(s, 1, (CHOOSE k \in 1..Len(s) :
                          s[k] = NL /\ \A j \in 1..(k - 1) : s[j] # NL) - 1)
    ELSE s

EndsWith(s, c) == s # <<>> /\ s[Len(s)] = c

\* ------------------------------------------------------------ words used
W ==
    [ feat |-> <<"f","e","a","t">>,
      fix |-> <<"f","i","x">>,
      docs |-> <<"d","o","c","s">>,
      style |-> <<"s","t","y","l","e">>,
      refactor |-> <<"r","e","f","a","c","t","o","r">>,
      test |-> <<"t","e","s","t">>,
      chore |-> <<"c","h","o","r","e">>,
      perf |-> <<"p","e","r","f">>,
      ci |-> <<"c","i">>,
      build |-> <<"b","u","i","l","d">>,
      revert |-> <<"r","e","v","e","r","t">>,
      update |-> <<"u","p","d","a","t","e">>,
      change |-> <<"c","h","a","n","g","e">>,
      modify |-> <<"m","o","d","i","f","y">>,
      commit |-> <<"c","o","m","m","i","t">>,
      initial |-> <<"i","n","i","t","i","a","l">>,
      wip |-> <<"w","i","p">>,
      tmp |-> <<"t","m","p">>,
      temp |-> <<"t","e","m","p">>,
      add |-> <<"a","d","d">>,
      Add |-> <<"A","d","d">>,
      bug |-> <<"b","u","g">>,
      parser |-> <<"p","a","r","s","e","r">>,
      notes |-> <<"n","o","t","e","s">> ]
SP == <<" ">>
COLON == <<":">>
DOT == <<".">>

\* --------------------------------------------------------- quality scorer
ConventionalTypes ==
    {W.feat, W.fix, W.docs, W.style, W.refactor, W.test, W.chore, W.perf,
     W.ci, W.build, W.revert}

\* The optional group (\([^)]+\))? : the texts left after it, matched or not.
AfterOptionalScope(r) ==
    {r} \cup
    { Drop(r, k) : k \in { j \in 3..Len(r) :
          r[1] = "(" /\ r[j] = ")" /\ \A i \in 2..(j - 1) : r[i] # ")" } }

\* ^(feat|...|revert)(\([^)]+\))?: .+
conventional_pattern(m) ==
    \E t \in ConventionalTypes :
        /\ HasPrefix(m, t)
        /\ \E r \in AfterOptionalScope(Drop(m, Len(t))) :
              /\ Len(r) >= 3
              /\ r[1] = ":" /\ r[2] = " " /\ r[3] # NL

\* ^(feat|...|revert)?(\([^)]+\))?: [a-z]
present_tense_pattern(m) ==
    \E t \in ConventionalTypes \cup {<<>>} :
        /\ HasPrefix(m, t)
        /\ \E r \in AfterOptionalScope(Drop(m, Len(t))) :
              /\ Len(r) >= 3
              /\ r[1] = ":" /\ r[2] = " " /\ IsLower(r[3])

generic_messages ==
    {W.update, W.fix, W.change, W.modify, W.commit, W.initial, W.test,
     W.wip, W.tmp, W.temp}

\* Mutant: a message that starts with a placeholder is generic.
is_generic_prefix(m) ==
    \E g \in generic_messages : HasPrefix(Lower(m), g)

\* Mutant: the lower-cased message is compared as it is.
is_generic_exact(m) ==
    \E g \in generic_messages :
        Lower(m) = g \/ Lower(m) = g \o SP \o W.commit

is_generic(m) ==
    LET msg_lower == StripChars(Lower(m), {"."})
    IN  \E g \in generic_messages :
            msg_lower = g \/ msg_lower = g \o SP \o W.commit

\* Bounds of the length criterion.
MinFirstLine == 10
MaxFirstLine == 72

\* Mutant: the bounds are exclusive.
length_ok_exclusive(first_line) ==
    MinFirstLine < Len(first_line) /\ Len(first_line) < MaxFirstLine

\* 10 <= len(first_line) <= 72
length_ok(first_line) ==
    MinFirstLine <= Len(first_line) /\ Len(first_line) <= MaxFirstLine

\* Mutant: six points are enough.
well_formed_score_six(score) == score >= 6

\* score >= 7, the second component of the result.
well_formed_score(score) == score >= 7

\* score_commit_message: [score, is_good, reasons]
score_commit_message(m) ==
    LET first_line == FirstLine(m)
        conv == conventional_pattern(m)
        lenok == length_ok(first_line)
        generic == is_generic(m)
        present == present_tense_pattern(m)
        noperiod == ~EndsWith(first_line, ".")
        score == (IF conv THEN 4 ELSE 0) + (IF lenok THEN 2 ELSE 0)
                 + (IF generic THEN 0 ELSE 2) + (IF present THEN 1 ELSE 0)
                 + (IF noperiod THEN 1 ELSE 0)
        reasons ==
            (IF conv THEN <<"follows conventional format">> ELSE <<>>)
            \o (IF lenok THEN <<"appropriate length">>
                ELSE IF Len(first_line) < MinFirstLine THEN <<"too short">>
                ELSE <<"too long">>)
            \o (IF generic THEN <<"too generic">> ELSE <<"descriptive">>)
            \o (IF present THEN <<"uses present tense">> ELSE <<>>)
            \o (IF noperiod THEN <<"no trailing period">> ELSE <<>>)
    IN  [score |-> score, is_good |-> well_formed_score(score),
         reasons |-> reasons]

\* is_well_formed(message, min_score)
is_well_formed(m, min_score) == score_commit_message(m).score >= min_score

\* -------------------------------------------------------------- repository
\* Raw commit messages found in the repository (as git stores them, ending
\* with a newline).
Msg_feat == W.feat \o COLON \o SP \o W.add \o SP \o W.parser \o <<NL>>
Msg_fixbug == W.fix \o SP \o W.bug \o <<NL>>
Msg_body == W.wip \o <<NL, NL>> \o W.notes \o <<NL>>
Msg_Feat == W.feat \o COLON \o SP \o W.Add \o SP \o W.parser \o DOT \o <<NL>>

MsgPool == {Msg_body, Msg_feat, Msg_fixbug}

\* Replies of the Model Backend (already stripped and non-empty, as every
\* provider returns them).
Gen_parser == W.feat \o <<"(">> \o W.parser \o <<")">> \o COLON \o SP
              \o W.add \o SP \o W.parser
Gen_fixbug == W.fix \o SP \o W.bug

Answers == {Gen_parser, Gen_fixbug}

BranchName == "main"
BackupName == "backup-main-1700000000"
OriginalRef == "refs/original/refs/heads/main"

MappingFile == "commit-message-map.json"
CounterFile == "commit-counter.txt"
FilterScript == "filter-msg.py"

RECURSIVE Chain(_, _)
\* git rev-list --reverse <tip>: the ancestors of tip, oldest first.
Chain(objs, tip) ==
    IF tip = 0 THEN <<>> ELSE Append(Chain(objs, objs[tip].parent), tip)

\* GitRepo.get_commits: the whole history, or its newest max_commits
\* commits, oldest first.  max_commits = 0 stands for None as well: both
\* are falsy and select the whole history.
get_commits(objs, tip, max_commits) ==
    LET all == Chain(objs, tip)
    IN  IF max_commits > 0 /\ max_commits < Len(all)
        THEN SubSeq(all, Len(all) - max_commits + 1, Len(all))
        ELSE all

RECURSIVE JoinLines(_)
\* Newlines inside a paragraph become spaces.
JoinLines(s) ==
    IF s = <<>> THEN <<>>
    ELSE <<IF Head(s) = NL THEN " " ELSE Head(s)>> \o JoinLines(Tail(s))

\* git log --format=%s: the first paragraph of the message on one line.
FormatSubject(raw) ==
    LET body == LStrip(raw, {NL})
        ends == { k \in 1..(Len(body) - 1) : body[k] = NL /\ body[k + 1] = NL }
        para == IF ends = {} THEN RStrip(body, {NL})
                ELSE SubSeq(body, 1, (CHOOSE k \in ends :
                                         \A j \in ends : k <= j) - 1)
    IN  JoinLines(para)

\* GitRepo.get_commit_message
get_commit_message(objs, c) == Strip(FormatSubject(objs[c].msg) \o <<NL>>)

\* GitRepo.get_commit_full_message
get_commit_full_message(objs, c) == Strip(objs[c].msg \o <<NL>>)

\* The object store is content addressed: storing a commit that exists
\* already yields the existing identifier.
StoreCommit(objs, obj) ==
    IF \E k \in 1..Len(objs) : objs[k] = obj
    THEN objs
    ELSE Append(objs, obj)

CommitId(objs, obj) == CHOOSE k \in 1..Len(objs) : objs[k] = obj

\* ------------------------------------------------------------------ state
VARIABLES
    opts,             \* RewriteOptions of the run
    mode,             \* entry point: "rewrite", "staged" or "hooks"
    staged_files,     \* the index holds staged changes
    asked,            \* the prompts answered so far, with their answers
    hints,            \* backup names given in printed restore instructions
    stdout,           \* the messages echoed to standard output
    exit_code,        \* exit code of the CLI process, -1 while it runs
    objects,          \* commit objects: [tree, msg, parent], id = index
    refs,             \* ref name -> commit id
    refs0,            \* the refs when the run started
    pc,               \* position of rewrite()
    outcome,          \* "running", "returned" or "raised"
    commits,          \* the commit range, oldest first
    idx,              \* loop index of the scan, 1-based
    message_map,      \* commit id -> generated message
    ordered_messages, \* the messages handed to rewrite_history
    backup_branch,    \* name of the backup branch of this run, or None
    calls,            \* commits the Model Backend was invoked for
    errors,           \* commits whose processing raised
    skipped,          \* commits skipped as well-formed
    files,            \* temporary files present in .git
    counter,          \* content of the counter file
    rewritten,        \* filter-branch: new ids of the commits rebuilt so far
    invoked,          \* rewrite_history has been invoked
    message,          \* the message given to score_commit_message
    scored,           \* its result: [score, is_good, reasons]
    diff,             \* the diff given to _generate_commit_message
    redacted_diff     \* the diff part of the prompt built from it

vars == <<opts, mode, staged_files, asked, hints, stdout, exit_code,
          objects, refs, refs0, pc, outcome, commits, idx,
          message_map, ordered_messages, backup_branch, calls, errors,
          skipped, files, counter, rewritten, invoked,
          message, scored, diff, redacted_diff>>

inputVars == <<opts, mode, staged_files>>
unitVars == <<message, scored, diff, redacted_diff>>
cliVars == <<stdout, exit_code>>

engineVars == <<commits, idx, message_map, ordered_messages, backup_branch,
                calls, errors, skipped>>
filterVars == <<files, counter, rewritten, invoked>>
repoVars == <<objects, refs>>

Providers == {"openai", "deepseek", "ollama"}
Thresholds == 0..10

\* The commit at position k of a fresh linear history.
InitialCommit(msgs, k) == [tree |-> k, msg |-> msgs[k], parent |-> k - 1]

\* The option records of a run with its threshold among the given ones.
\* The API key and consent flags are read for remote providers only, so
\* they are left unset for ollama.
Options(thresholds) ==
    { o \in [provider : Providers,
             api_key : BOOLEAN,
             dry_run : BOOLEAN,
             quiet : BOOLEAN,
             max_commits : 0..MaxLen,
             skip_backup : BOOLEAN,
             skip_well_formed : BOOLEAN,
             min_quality_score : thresholds,
             branch : {None},
             skip_remote_consent : BOOLEAN] :
        o.provider = "ollama" => ~o.api_key /\ ~o.skip_remote_consent }

\* The result record before score_commit_message has run.
NoScore == [score |-> 0, is_good |-> FALSE, reasons |-> <<>>]

\* Nothing is being scored or redacted.
UnitIdle ==
    /\ message = <<>>
    /\ scored = NoScore
    /\ diff = <<>>
    /\ redacted_diff = <<>>

\* A run of the given entry point starts on a linear history of so many
\* commits as lens allows on branch main, the current branch; others maps further branch
\* names to positions of that history.
RunState(options, pool, lens, modes, staged, others, entry) ==
    /\ opts \in options
    /\ mode \in modes
    /\ staged_files \in staged
    /\ \E n \in lens : \E msgs \in [1..n -> pool] :
          /\ objects = [k \in 1..n |-> InitialCommit(msgs, k)]
          /\ \E other \in others :
                /\ \A b \in DOMAIN other : other[b] <= n
                /\ refs = (BranchName :> n) @@ other
    /\ refs0 = refs
    /\ pc = entry
    /\ outcome = "running"
    /\ asked = {}
    /\ hints = {}
    /\ stdout = <<>>
    /\ exit_code = -1
    /\ commits = <<>>
    /\ idx = 1
    /\ message_map = <<>>
    /\ ordered_messages = <<>>
    /\ backup_branch = None
    /\ calls = {}
    /\ errors = {}
    /\ skipped = {}
    /\ files = {}
    /\ counter = 0
    /\ rewritten = <<>>
    /\ invoked = FALSE

InitRun(options, pool, modes, staged, others, entry) ==
    RunState(options, pool, 1..MaxLen, modes, staged, others, entry)
        /\ UnitIdle

\* A rewrite() run: nothing staged, no branch besides main.
InitWith(options, pool) ==
    InitRun(options, pool, {"rewrite"}, {FALSE}, {<<>>}, "start")

\* RewriteOptions.min_quality_score defaults to 7.
DefaultThreshold == 7

\* generate_for_staged() reads the provider, credential, consent and quiet
\* options only.
StagedOptions ==
    { o \in Options({DefaultThreshold}) :
        ~o.dry_run /\ ~o.skip_backup /\ o.max_commits = 0
        /\ o.skip_well_formed }

\* A generate_for_staged() run.
InitStaged ==
    InitRun(StagedOptions, {Msg_fixbug}, {"staged"}, BOOLEAN, {<<>>}, "start")

Init == InitWith(Options({DefaultThreshold}), MsgPool) \/ InitStaged

\* ----------------------------------------------------------------- engine
Finish(o) == pc' = "done" /\ outcome' = o

\* Mutant: a quiet run takes consent for granted.
check_remote_api_consent_assumed(o) ==
    IF o.provider = "ollama" THEN "yes"
    ELSE IF o.skip_remote_consent THEN "yes"
    ELSE IF o.quiet THEN "yes"
    ELSE "ask"

\* GitCommitRewriter._check_remote_api_consent without the prompt:
\* "yes", "no", or "ask" when the user has to be asked.
check_remote_api_consent(o) ==
    IF o.provider = "ollama" THEN "yes"
    ELSE IF o.skip_remote_consent THEN "yes"
    ELSE IF o.quiet THEN "no"
    ELSE "ask"

\* Where rewrite() goes once consent is given: the history warning is
\* shown and confirmed in interactive runs that are not dry runs.
AfterConsent(o) == IF ~o.dry_run /\ ~o.quiet THEN "ask_proceed" ELSE "backup"

\* rewrite(): repository check, current branch, uncommitted-changes check.
Begin ==
    /\ pc = "start" /\ mode = "rewrite"
    /\ \E has_uncommitted_changes \in BOOLEAN :
          pc' = IF has_uncommitted_changes /\ ~opts.quiet
                THEN "ask_uncommitted" ELSE "get_commits"
    /\ UNCHANGED <<inputVars, unitVars, asked, hints, cliVars, repoVars, refs0, outcome, engineVars, filterVars>>

PromptAnswers == {"yes", "no", "interrupt"}

\* Mutant: an interrupted prompt counts as confirmed.
AcceptedOnInterrupt(ans) == ans # "no"

\* Confirm.ask: only the answer yes confirms; no declines and
\* KeyboardInterrupt/EOFError are caught and treated alike.
Accepted(ans) == ans = "yes"

\* "Do you want to continue anyway?"
AnswerUncommitted ==
    /\ pc = "ask_uncommitted"
    /\ \E ans \in PromptAnswers :
          /\ asked' = asked \cup {<<"uncommitted", ans>>}
          /\ IF Accepted(ans) THEN pc' = "get_commits" /\ outcome' = outcome
             ELSE Finish("returned")
    /\ UNCHANGED <<inputVars, unitVars, hints, cliVars, repoVars, refs0, engineVars,
                   filterVars>>

\* rewrite(): enumerate the range, then the consent check.
GetCommits ==
    /\ pc = "get_commits"
    /\ commits' = get_commits(objects, refs[BranchName], opts.max_commits)
    /\ IF commits' = <<>> THEN Finish("returned")
       ELSE LET consent == check_remote_api_consent(opts)
            IN  IF consent = "no" THEN Finish("returned")
                ELSE /\ pc' = IF consent = "ask" THEN "ask_consent"
                              ELSE AfterConsent(opts)
                     /\ outcome' = outcome
    /\ UNCHANGED <<inputVars, unitVars, asked, hints, cliVars, repoVars, refs0, idx, message_map,
                   ordered_messages, backup_branch, calls, errors, skipped,
                   filterVars>>

\* "Do you consent to sending this data to the remote AI provider?"
\* rewrite() returns when consent is refused, generate_for_staged() raises
\* RuntimeError.
AnswerConsent ==
    /\ pc = "ask_consent"
    /\ \E ans \in PromptAnswers :
          /\ asked' = asked \cup {<<"consent", ans>>}
          /\ IF Accepted(ans)
             THEN /\ pc' = IF mode = "staged" THEN "staged_generate"
                           ELSE AfterConsent(opts)
                  /\ outcome' = outcome
             ELSE Finish(IF mode = "staged" THEN "raised" ELSE "returned")
    /\ UNCHANGED <<inputVars, unitVars, hints, cliVars, repoVars, refs0, engineVars,
                   filterVars>>

\* "Do you want to proceed?"
AnswerProceed ==
    /\ pc = "ask_proceed"
    /\ \E ans \in PromptAnswers :
          /\ asked' = asked \cup {<<"proceed", ans>>}
          /\ IF Accepted(ans) THEN pc' = "backup" /\ outcome' = outcome
             ELSE Finish("returned")
    /\ UNCHANGED <<inputVars, unitVars, hints, cliVars, repoVars, refs0, engineVars,
                   filterVars>>

\* Mutant: the skip-backup flag read the wrong way round.
WantsBackupInverted(o) == o.skip_backup /\ ~o.dry_run

\* Mutant: the dry-run test left out.
WantsBackupInDryRun(o) == ~o.skip_backup

\* rewrite(): a backup is wanted unless skipped or in a dry run.
WantsBackup(o) == ~o.skip_backup /\ ~o.dry_run

\* GitRepo.create_backup_branch: git branch <name> at HEAD.
create_backup_branch(r, name) == (name :> r[BranchName]) @@ r

\* Mutant: the branch is not deleted.
delete_branch_noop(r, name) == r

\* GitRepo.delete_branch: git branch -D <name>.
delete_branch(r, name) == [n \in (DOMAIN r) \ {name} |-> r[n]]

CreateBackup ==
    /\ pc = "backup"
    /\ IF WantsBackup(opts)
       THEN /\ refs' = create_backup_branch(refs, BackupName)
            /\ backup_branch' = BackupName
       ELSE UNCHANGED <<refs, backup_branch>>
    /\ pc' = "scan"
    /\ idx' = 1
    /\ UNCHANGED <<inputVars, unitVars, asked, hints, cliVars, objects, refs0, outcome, commits,
                   message_map, ordered_messages, calls, errors, skipped,
                   filterVars>>

\* Mutant: the verdict of the scorer read the wrong way round.
ShouldSkipInverted(o, subject) ==
    o.skip_well_formed /\ ~score_commit_message(subject).is_good

\* The skip gate of the scan loop.
ShouldSkip(o, subject) ==
    o.skip_well_formed /\ score_commit_message(subject).is_good

\* providers: a remote provider cannot be created without an API key.
ProviderAvailable(o) == o.provider = "ollama" \/ o.api_key

ScanPending == pc = "scan" /\ idx <= Len(commits)

\* get_commit_info raises: the error is reported, the loop goes on.
ScanFetchError ==
    /\ ScanPending
    /\ errors' = errors \cup {commits[idx]}
    /\ idx' = idx + 1
    /\ UNCHANGED <<inputVars, unitVars, asked, hints, cliVars, repoVars, refs0, pc, outcome, commits, message_map,
                   ordered_messages, backup_branch, calls, skipped,
                   filterVars>>

\* The message is well-formed already: continue with the next commit.
ScanSkip ==
    /\ ScanPending
    /\ ShouldSkip(opts, get_commit_message(objects, commits[idx]))
    /\ skipped' = skipped \cup {commits[idx]}
    /\ idx' = idx + 1
    /\ UNCHANGED <<inputVars, unitVars, asked, hints, cliVars, repoVars, refs0, pc, outcome, commits, message_map,
                   ordered_messages, backup_branch, calls, errors,
                   filterVars>>

\* The message map after the backend replied for commit c.
RecordReply(map, c, subject, new_message) ==
    IF new_message # subject THEN (c :> new_message) @@ map ELSE map

\* The Model Backend replies with a message.
ScanGenerate ==
    /\ ScanPending
    /\ ~ShouldSkip(opts, get_commit_message(objects, commits[idx]))
    /\ ProviderAvailable(opts)
    /\ \E new_message \in Answers :
          message_map' = RecordReply(message_map, commits[idx],
                             get_commit_message(objects, commits[idx]),
                             new_message)
    /\ calls' = calls \cup {commits[idx]}
    /\ idx' = idx + 1
    /\ UNCHANGED <<inputVars, unitVars, asked, hints, cliVars, repoVars, refs0, pc, outcome, commits,
                   ordered_messages, backup_branch, errors, skipped,
                   filterVars>>

\* Mutant: a generation error ends the run instead of the iteration.
ScanGenerateErrorAbort ==
    /\ ScanPending
    /\ ~ShouldSkip(opts, get_commit_message(objects, commits[idx]))
    /\ calls' = IF ProviderAvailable(opts) THEN calls \cup {commits[idx]}
                ELSE calls
    /\ errors' = errors \cup {commits[idx]}
    /\ Finish("raised")
    /\ UNCHANGED <<inputVars, unitVars, asked, hints, cliVars, repoVars, refs0, commits, idx, message_map,
                   ordered_messages, backup_branch, skipped, filterVars>>

\* Generation raises: no provider (missing API key, before any request),
\* or the request fails, times out or comes back empty.
ScanGenerateError ==
    /\ ScanPending
    /\ ~ShouldSkip(opts, get_commit_message(objects, commits[idx]))
    /\ calls' = IF ProviderAvailable(opts) THEN calls \cup {commits[idx]}
                ELSE calls
    /\ errors' = errors \cup {commits[idx]}
    /\ idx' = idx + 1
    /\ UNCHANGED <<inputVars, unitVars, asked, hints, cliVars, repoVars, refs0, pc, outcome, commits, message_map,
                   ordered_messages, backup_branch, skipped, filterVars>>

\* Mutant: the list holds the generated messages only.
OrderedMessagesChangedOnly(objs, cs, map) ==
    LET changed == SelectSeq(cs, LAMBDA c : c \in DOMAIN map)
    IN  [k \in 1..Len(changed) |-> map[changed[k]]]

\* rewrite(): the ordered message list, one entry per commit of the range.
OrderedMessages(objs, cs, map) ==
    [k \in 1..Len(cs) |->
        IF cs[k] \in DOMAIN map THEN map[cs[k]]
        ELSE get_commit_full_message(objs, cs[k])]

\* Mutant: the rewrite is applied without asking.
AfterScanNoPrompt(o) == "apply"

\* rewrite(): interactive runs confirm before the rewrite is applied.
AfterScan(o) == IF o.quiet THEN "apply" ELSE "ask_apply"

\* rewrite(): after the loop - summary, no-change exit, dry-run exit.
Decide ==
    /\ pc = "scan" /\ idx > Len(commits)
    /\ ordered_messages' = OrderedMessages(objects, commits, message_map)
    /\ IF DOMAIN message_map = {}
       THEN /\ refs' = IF backup_branch # None
                       THEN delete_branch(refs, backup_branch) ELSE refs
            /\ Finish("returned")
       ELSE /\ refs' = refs
            /\ IF opts.dry_run THEN Finish("returned")
               ELSE /\ pc' = AfterScan(opts)
                    /\ outcome' = outcome
    /\ UNCHANGED <<inputVars, unitVars, asked, hints, cliVars, objects, refs0, commits, idx, message_map,
                   backup_branch, calls, errors, skipped, filterVars>>

\* The backup names in the restore instructions printed so far, after one
\* more is printed: the console of a quiet run prints nothing, and there is
\* nothing to name without a backup.
RestoreHint(o, backup, printed) ==
    IF ~o.quiet /\ backup # None THEN printed \cup {backup} ELSE printed

\* "Do you want to apply the new commit messages?"  A no is answered with
\* the name of the backup branch; an interrupt returns silently.
AnswerApply ==
    /\ pc = "ask_apply"
    /\ \E ans \in PromptAnswers :
          /\ asked' = asked \cup {<<"apply", ans>>}
          /\ hints' = IF ans = "no"
                      THEN RestoreHint(opts, backup_branch, hints) ELSE hints
          /\ IF Accepted(ans) THEN pc' = "apply" /\ outcome' = outcome
             ELSE Finish("returned")
    /\ UNCHANGED <<inputVars, unitVars, cliVars, repoVars, refs0, engineVars,
                   filterVars>>

\* ------------------------------------------------------------ staged mode
\* The call the backend is asked with for the staged changes (no commit).
StagedCall == 0

\* generate_for_staged(): repository check and consent; refused consent
\* raises RuntimeError.
StagedBegin ==
    /\ pc = "start" /\ mode = "staged"
    /\ LET consent == check_remote_api_consent(opts)
       IN  IF consent = "no" THEN Finish("raised")
           ELSE /\ pc' = IF consent = "ask" THEN "ask_consent"
                         ELSE "staged_generate"
                /\ outcome' = outcome
    /\ UNCHANGED <<inputVars, unitVars, asked, hints, cliVars, repoVars, refs0,
                   engineVars, filterVars>>

\* generate_for_staged(): nothing is staged - GitError.
StagedNoChanges ==
    /\ pc = "staged_generate"
    /\ ~staged_files
    /\ Finish("raised")
    /\ UNCHANGED <<inputVars, unitVars, asked, hints, cliVars, repoVars, refs0,
                   engineVars, filterVars>>

\* generate_for_staged() returns the reply of the backend and the caller
\* echoes it (click.echo in main).
StagedGenerate ==
    /\ pc = "staged_generate"
    /\ staged_files
    /\ ProviderAvailable(opts)
    /\ \E new_message \in Answers : stdout' = Append(stdout, new_message)
    /\ calls' = calls \cup {StagedCall}
    /\ Finish("returned")
    /\ UNCHANGED <<inputVars, unitVars, asked, hints, exit_code, repoVars, refs0,
                   commits, idx, message_map, ordered_messages,
                   backup_branch, errors, skipped, filterVars>>

\* generate_for_staged(): no provider (missing API key) or a failed
\* request - the error reaches the caller.
StagedGenerateError ==
    /\ pc = "staged_generate"
    /\ staged_files
    /\ calls' = IF ProviderAvailable(opts) THEN calls \cup {StagedCall}
                ELSE calls
    /\ Finish("raised")
    /\ UNCHANGED <<inputVars, unitVars, asked, hints, cliVars, repoVars, refs0,
                   commits, idx, message_map, ordered_messages,
                   backup_branch, errors, skipped, filterVars>>

\* -------------------------------------------------------------------- CLI
\* Fields of the RewriteOptions dataclass.
RewriteOptionsFields ==
    {"provider", "api_key", "model", "ollama_url", "branch", "dry_run",
     "verbose", "quiet", "max_commits", "skip_backup", "skip_well_formed",
     "min_quality_score", "template", "language", "prompt",
     "skip_remote_consent"}

\* Keyword arguments main() passes to RewriteOptions.
CliKeywords ==
    {"provider", "api_key", "model", "ollama_url", "branch", "dry_run",
     "verbose", "quiet", "max_commits", "skip_backup", "skip_well_formed",
     "min_quality_score", "template", "language", "prompt",
     "skip_remote_consent", "repo", "push"}

\* A dataclass constructor raises TypeError on an unknown keyword.
Constructs(keywords, fields) == keywords \subseteq fields

\* main(): the exit code after the engine returned or raised (every
\* Exception is reported and followed by sys.exit(1)).
CliExitCode(o) == IF o = "raised" THEN 1 ELSE 0

\* main(): --install-hooks installs the hooks and returns; otherwise the
\* options are built and the engine is entered.  An exception ends the
\* process with exit code 1.
CliMain ==
    /\ pc = "cli_main"
    /\ IF mode = "hooks"
       THEN Finish("returned") /\ exit_code' = CliExitCode("returned")
       ELSE IF Constructs(CliKeywords, RewriteOptionsFields)
       THEN pc' = "start" /\ UNCHANGED <<outcome, exit_code>>
       ELSE Finish("raised") /\ exit_code' = CliExitCode("raised")
    /\ UNCHANGED <<inputVars, unitVars, asked, hints, stdout, repoVars, refs0,
                   engineVars, filterVars>>

\* A CLI invocation: any options, any of the three entry points.
InitCli ==
    InitRun(Options({DefaultThreshold}), {Msg_fixbug},
            {"rewrite", "staged", "hooks"}, BOOLEAN, {<<>>}, "cli_main")

\* The construction of the options raises in every invocation that is not
\* --install-hooks, so no step of the engine follows main()'s first one.
NextCli == CliMain

SpecCli == InitCli /\ [][NextCli]_vars

\* ----------------------------------------------------- scoring a message
\* n filler characters.
Pad(n) == [k \in 1..n |-> "x"]

Capitalize(m) == IF m = <<>> THEN m ELSE <<UpperChar(m[1])>> \o Tail(m)

\* The placeholders alone and followed by " commit", in lower case and
\* capitalized, with and without periods around them.
GenericVariants ==
    { lead \o w \o trail :
        lead \in {<<>>, DOT}, trail \in {<<>>, DOT},
        w \in UNION { {g, Capitalize(g), g \o SP \o W.commit,
                        Capitalize(g) \o SP \o W.commit} :
                        g \in generic_messages } }

\* What a first line starts with: a type, a type with scope, a type in
\* upper case, no type at all, no colon.
Prefixes ==
    { W.feat \o COLON \o SP,
      W.fix \o <<"(">> \o W.parser \o <<")">> \o COLON \o SP,
      Capitalize(W.feat) \o COLON \o SP,
      COLON \o SP,
      <<"(">> \o W.parser \o <<")">> \o COLON \o SP,
      W.feat \o COLON,
      W.add \o SP }

\* First-line lengths around both bounds of the length criterion.
Lengths ==
    (MinFirstLine - 2)..(MinFirstLine + 1)
        \cup (MaxFirstLine - 1)..(MaxFirstLine + 2)

\* Single lines of those lengths: prefix, a first subject character in
\* lower or upper case, filler, with or without a final period.
PaddedMessages ==
    UNION { { pre \o <<c>> \o Pad(n - Len(pre) - 1 - Len(trail)) \o trail :
                c \in {"a", "A"}, trail \in {<<>>, DOT},
                n \in { l \in Lengths : l >= Len(pre) + 3 } } :
            pre \in Prefixes }

\* Messages with a body after the first line.
BodyMessages ==
    { first \o <<NL, NL>> \o Pad(MaxFirstLine) :
        first \in {W.wip, W.fix \o SP \o W.bug,
                   W.feat \o COLON \o SP \o W.add \o SP \o W.parser} }

ScoreMessages == GenericVariants \cup PaddedMessages \cup BodyMessages

\* The options the skip gate reads, the rest fixed.
ScoreOptions ==
    { o \in Options({DefaultThreshold}) :
        /\ o.provider = "ollama" /\ o.quiet /\ ~o.dry_run
        /\ ~o.skip_backup /\ o.max_commits = 0 }

\* A call of score_commit_message on some message.
InitScore ==
    /\ RunState(ScoreOptions, {Msg_fixbug}, {1}, {"score"}, {FALSE},
                {<<>>}, "score")
    /\ message \in ScoreMessages
    /\ scored = NoScore
    /\ diff = <<>>
    /\ redacted_diff = <<>>

ScoreCommitMessage ==
    /\ pc = "score"
    /\ scored' = score_commit_message(message)
    /\ Finish("returned")
    /\ UNCHANGED <<inputVars, message, diff, redacted_diff, asked, hints,
                   cliVars, repoVars, refs0, engineVars, filterVars>>

NextScore == ScoreCommitMessage

SpecScore == InitScore /\ [][NextScore]_vars

\* -------------------------------------------------- regular expressions
\* The part of Python's re the redaction patterns use.  A pattern is a
\* concatenation of items; Ends gives the positions an item can end at
\* when it starts at position i, in the order the backtracking matcher
\* tries them.
Unbounded == -1

Lit(s) == [k |-> "lit", s |-> s]
Set(cs) == [k |-> "set", cs |-> cs, neg |-> FALSE]
NotSet(cs) == [k |-> "set", cs |-> cs, neg |-> TRUE]
Rep(c, min, max) == [k |-> "rep", c |-> c, min |-> min, max |-> max,
                     lazy |-> FALSE]
RepLazy(c, min, max) == [k |-> "rep", c |-> c, min |-> min, max |-> max,
                         lazy |-> TRUE]
Opt(r) == [k |-> "opt", r |-> r]
Alt(rs) == [k |-> "alt", rs |-> rs]
Cat(rs) == [k |-> "cat", rs |-> rs]
Bol == [k |-> "bol"]
Eol == [k |-> "eol"]
Look(r) == [k |-> "look", r |-> r]

\* . and [\s\S]
Dot == NotSet({NL})
AnyChar == NotSet({})

Digits == {"0","1","2","3","4","5","6","7","8","9"}
Uppers == { UpperCase[k] : k \in 1..26 }
Lowers == { LowerCase[k] : k \in 1..26 }
Alnum == Digits \cup Uppers \cup Lowers
Quotes == {"'", "\""}
\* \s
Spaces == {" ", "\t", NL, "\r", "\f"}

\* A character is in a class; with IGNORECASE in either case.
InClass(c, a, ci) ==
    ((c \in a.cs) \/ (ci /\ (LowerChar(c) \in a.cs \/ UpperChar(c) \in a.cs)))
        # a.neg

\* A literal is at position i; with IGNORECASE in any case.
LitAt(s, t, i, ci) ==
    /\ i + Len(s) - 1 <= Len(t)
    /\ \A k \in 1..Len(s) :
          t[i + k - 1] = s[k] \/ (ci /\ LowerChar(t[i + k - 1]) = LowerChar(s[k]))

Least(S) == CHOOSE x \in S : \A y \in S : x <= y

\* Characters of the class from position i on, at most cap of them.
RunLen(a, t, i, ci, cap) ==
    LET stops == { k \in i..Len(t) : ~InClass(t[k], a, ci) }
        n == (IF stops = {} THEN Len(t) + 1 ELSE Least(stops)) - i
    IN  IF cap # Unbounded /\ n > cap THEN cap ELSE n

RECURSIVE Ends(_, _, _, _)
RECURSIVE EndsAlt(_, _, _, _, _)
RECURSIVE EndsCat(_, _, _, _, _)
RECURSIVE EndsEach(_, _, _, _, _, _)

Ends(r, t, i, ci) ==
    CASE r.k = "lit" -> IF LitAt(r.s, t, i, ci) THEN <<i + Len(r.s)>> ELSE <<>>
      [] r.k = "set" -> IF i <= Len(t) /\ InClass(t[i], r, ci)
                        THEN <<i + 1>> ELSE <<>>
      [] r.k = "rep" ->
            LET n == RunLen(r.c, t, i, ci, r.max)
            IN  IF n < r.min THEN <<>>
                ELSE IF r.lazy
                THEN [j \in 1..(n - r.min + 1) |-> i + r.min + j - 1]
                ELSE [j \in 1..(n - r.min + 1) |-> i + n - j + 1]
      [] r.k = "opt" -> Ends(r.r, t, i, ci) \o <<i>>
      [] r.k = "alt" -> EndsAlt(r.rs, 1, t, i, ci)
      [] r.k = "cat" -> EndsCat(r.rs, 1, t, i, ci)
      [] r.k = "bol" -> IF i = 1 THEN <<i>>
                        ELSE IF t[i - 1] = NL THEN <<i>> ELSE <<>>
      [] r.k = "eol" -> IF i = Len(t) + 1 THEN <<i>>
                        ELSE IF t[i] = NL THEN <<i>> ELSE <<>>
      [] r.k = "look" -> IF Ends(r.r, t, i, ci) # <<>> THEN <<i>> ELSE <<>>

EndsAlt(rs, j, t, i, ci) ==
    IF j > Len(rs) THEN <<>>
    ELSE Ends(rs[j], t, i, ci) \o EndsAlt(rs, j + 1, t, i, ci)

EndsCat(rs, j, t, i, ci) ==
    IF j > Len(rs) THEN <<i>>
    ELSE EndsEach(Ends(rs[j], t, i, ci), 1, rs, j, t, ci)

EndsEach(cands, c, rs, j, t, ci) ==
    IF c > Len(cands) THEN <<>>
    ELSE EndsCat(rs, j + 1, t, cands[c], ci)
         \o EndsEach(cands, c + 1, rs, j, t, ci)

\* The end of the match of the items rs[j..] at position i, 0 if there is
\* none: the first way through the alternatives that reaches the end.
RECURSIVE MatchCat(_, _, _, _, _)
MatchCat(rs, j, t, i, ci) ==
    IF j > Len(rs) THEN i
    ELSE LET cands == Ends(rs[j], t, i, ci)
             good == { c \in 1..Len(cands) :
                         MatchCat(rs, j + 1, t, cands[c], ci) # 0 }
         IN  IF good = {} THEN 0
             ELSE MatchCat(rs, j + 1, t, cands[Least(good)], ci)

\* The text a match is replaced with.  The token patterns keep the quote
\* captured before and after the token (\1 and \3), the password pattern
\* the keyword, the connection string pattern the scheme (\1).
Replacement(p, m) ==
    CASE p.keep = "none" -> p.repl
      [] p.keep = "quotes" ->
            (IF m[1] \in Quotes THEN <<m[1]>> ELSE <<>>)
            \o p.repl
            \o (IF m[Len(m)] \in Quotes THEN <<m[Len(m)]>> ELSE <<>>)
      [] p.keep = "keyword" ->
            SubSeq(m, 1, (CHOOSE k \in 1..Len(m) :
                             m[k] \in Spaces \cup {"=", ":"}) - 1)
            \o p.repl
      [] p.keep = "scheme" ->
            SubSeq(m, 1, (CHOOSE k \in 1..Len(m) :
                             m[k] = ":" /\ \A j \in 1..(k - 1) : m[j] # ":")
                         - 1)
            \o p.repl

\* Pattern.sub(replacement, text), from position i on: the leftmost match
\* is replaced and the search goes on behind it.
RECURSIVE re_sub(_, _, _)
re_sub(p, t, i) ==
    LET starts == { k \in i..Len(t) : MatchCat(p.re, 1, t, k, p.ci) # 0 }
    IN  IF starts = {} THEN SubSeq(t, i, Len(t))
        ELSE LET s == Least(starts)
                 e == MatchCat(p.re, 1, t, s, p.ci)
             IN  SubSeq(t, i, s - 1) \o Replacement(p, SubSeq(t, s, e - 1))
                 \o re_sub(p, t, e)

\* -------------------------------------------------------------- redaction
\* Literals of the patterns.
T ==
    [ diff_git_a |-> <<"d","i","f","f"," ","-","-","g","i","t"," ","a","/">>,
      diff_git |-> <<"d","i","f","f"," ","-","-","g","i","t"," ">>,
      env |-> <<".","e","n","v">>,
      pem |-> <<".","p","e","m">>,
      key |-> <<".","k","e","y">>,
      p12 |-> <<".","p","1","2">>,
      pfx |-> <<".","p","f","x">>,
      id_rsa |-> <<"i","d","_","r","s","a">>,
      credentials |-> <<"c","r","e","d","e","n","t","i","a","l","s">>,
      secret |-> <<"s","e","c","r","e","t">>,
      json |-> <<"j","s","o","n">>,
      toml |-> <<"t","o","m","l">>,
      ini |-> <<"i","n","i">>,
      sk_dash |-> <<"s","k","-">>,
      sk_us |-> <<"s","k","_">>,
      ghp |-> <<"g","h","p","_">>,
      ghs |-> <<"g","h","s","_">>,
      gho |-> <<"g","h","o","_">>,
      xox |-> <<"x","o","x">>,
      AKIA |-> <<"A","K","I","A">>,
      sk_live |-> <<"s","k","_","l","i","v","e","_">>,
      pk_live |-> <<"p","k","_","l","i","v","e","_">>,
      sk_test |-> <<"s","k","_","t","e","s","t","_">>,
      pk_test |-> <<"p","k","_","t","e","s","t","_">>,
      BEGIN |-> <<"-","-","-","-","-","B","E","G","I","N"," ">>,
      END |-> <<"-","-","-","-","-","E","N","D"," ">>,
      PRIVATE_KEY |-> <<"P","R","I","V","A","T","E"," ","K","E","Y","-","-","-","-",
          "-">>,
      RSA |-> <<"R","S","A"," ">>,
      DSA |-> <<"D","S","A"," ">>,
      EC |-> <<"E","C"," ">>,
      OPENSSH |-> <<"O","P","E","N","S","S","H"," ">>,
      eyJ |-> <<"e","y","J">>,
      password |-> <<"p","a","s","s","w","o","r","d">>,
      passwd |-> <<"p","a","s","s","w","d">>,
      pwd |-> <<"p","w","d">>,
      api_key |-> <<"a","p","i","_","k","e","y">>,
      apikey |-> <<"a","p","i","k","e","y">>,
      auth_token |-> <<"a","u","t","h","_","t","o","k","e","n">>,
      access_token |-> <<"a","c","c","e","s","s","_","t","o","k","e","n">>,
      private_key |-> <<"p","r","i","v","a","t","e","_","k","e","y">>,
      mongodb |-> <<"m","o","n","g","o","d","b">>,
      srv |-> <<"+","s","r","v">>,
      postgres |-> <<"p","o","s","t","g","r","e","s">>,
      ql |-> <<"q","l">>,
      mysql |-> <<"m","y","s","q","l">>,
      redis |-> <<"r","e","d","i","s">>,
      scheme_sep |-> <<":","/","/">>,
      Bearer |-> <<"B","e","a","r","e","r">>,
      AIza |-> <<"A","I","z","a">> ]

\* Replacement texts.
R ==
    [ SENSITIVE_FILE |-> <<"[","S","E","N","S","I","T","I","V","E"," ","F","I","L","E",
          " ","C","O","N","T","E","N","T"," ","H","I","D","D","E","N",
          " ","F","O","R"," ","S","E","C","U","R","I","T","Y","]",
          "\n">>,
      ENV_FILE |-> <<"[",".","E","N","V"," ","F","I","L","E"," ","C","O","N","T",
          "E","N","T"," ","C","O","M","P","L","E","T","E","L","Y"," ",
          "H","I","D","D","E","N"," ","F","O","R"," ","S","E","C","U",
          "R","I","T","Y","]","\n">>,
      OPENAI_KEY |-> <<"[","R","E","D","A","C","T","E","D","_","O","P","E","N","A",
          "I","_","K","E","Y","]">>,
      GITHUB_TOKEN |-> <<"[","R","E","D","A","C","T","E","D","_","G","I","T","H","U",
          "B","_","T","O","K","E","N","]">>,
      SLACK_TOKEN |-> <<"[","R","E","D","A","C","T","E","D","_","S","L","A","C","K",
          "_","T","O","K","E","N","]">>,
      AWS_ACCESS_KEY |-> <<"[","R","E","D","A","C","T","E","D","_","A","W","S","_","A",
          "C","C","E","S","S","_","K","E","Y","]">>,
      STRIPE_KEY |-> <<"[","R","E","D","A","C","T","E","D","_","S","T","R","I","P",
          "E","_","K","E","Y","]">>,
      PRIVATE_KEY |-> <<"[","R","E","D","A","C","T","E","D","_","P","R","I","V","A",
          "T","E","_","K","E","Y","]">>,
      JWT_TOKEN |-> <<"[","R","E","D","A","C","T","E","D","_","J","W","T","_","T",
          "O","K","E","N","]">>,
      PASSWORD |-> <<"=","[","R","E","D","A","C","T","E","D","]">>,
      CONNECTION_STRING |-> <<":","/","/","[","R","E","D","A","C","T","E","D","_","C","O",
          "N","N","E","C","T","I","O","N","_","S","T","R","I","N","G",
          "]">>,
      BEARER |-> <<"B","e","a","r","e","r"," ","[","R","E","D","A","C","T","E",
          "D","_","T","O","K","E","N","]">>,
      DEEPSEEK_KEY |-> <<"[","R","E","D","A","C","T","E","D","_","D","E","E","P","S",
          "E","E","K","_","K","E","Y","]">>,
      GOOGLE_API_KEY |-> <<"[","R","E","D","A","C","T","E","D","_","G","O","O","G","L",
          "E","_","A","P","I","_","K","E","Y","]">> ]

\* SENSITIVE_FILE_PATTERNS, each as the items of its regular expression.
SENSITIVE_FILE_PATTERNS ==
    << \* \.env(\.[a-z]+)?$
       <<Lit(T.env), Opt(Cat(<<Lit(DOT), Rep(Set(Lowers), 1, Unbounded)>>)),
         Eol>>,
       \* \.pem$  \.key$  \.p12$  \.pfx$
       <<Lit(T.pem), Eol>>,
       <<Lit(T.key), Eol>>,
       <<Lit(T.p12), Eol>>,
       <<Lit(T.pfx), Eol>>,
       \* id_rsa  credentials
       <<Lit(T.id_rsa)>>,
       <<Lit(T.credentials)>>,
       \* secrets?\.(json|ya?ml|toml|ini)$
       <<Lit(T.secret), Opt(Lit(<<"s">>)), Lit(DOT),
         Alt(<<Lit(T.json),
               Cat(<<Lit(<<"y">>), Opt(Lit(<<"a">>)), Lit(<<"m", "l">>)>>),
               Lit(T.toml), Lit(T.ini)>>),
         Eol>> >>

\* The end of a file section: (?=^diff --git |$) under MULTILINE.
SectionEnd == Look(Alt(<<Cat(<<Bol, Lit(T.diff_git)>>), Eol>>))

\* redact_sensitive_data: the pattern compiled for a sensitive file pattern,
\* ^(diff --git a/.*<pattern>.*?$[\s\S]*?)(?=^diff --git |$)
\* with MULTILINE and IGNORECASE.
file_pattern(pattern) ==
    [re |-> <<Bol, Lit(T.diff_git_a), Rep(Dot, 0, Unbounded)>>
            \o pattern
            \o <<RepLazy(Dot, 0, Unbounded), Eol,
                 RepLazy(AnyChar, 0, Unbounded), SectionEnd>>,
     ci |-> TRUE, keep |-> "none", repl |-> R.SENSITIVE_FILE]

\* A token pattern (['\"]?)(<token>)(['\"]?) with replacement \1<text>\3.
Quoted(token, text) ==
    [re |-> <<Opt(Set(Quotes)), token, Opt(Set(Quotes))>>,
     ci |-> FALSE, keep |-> "quotes", repl |-> text]

KeyType == Opt(Alt(<<Lit(T.RSA), Lit(T.DSA), Lit(T.EC), Lit(T.OPENSSH)>>))

\* _REDACTION_PATTERNS, in the order they are applied.
REDACTION_PATTERNS ==
    << \* ^(diff --git a/.*\.env.*?$[\s\S]*?)(?=^diff --git |$), MULTILINE
       [re |-> <<Bol, Lit(T.diff_git_a), Rep(Dot, 0, Unbounded), Lit(T.env),
                 RepLazy(Dot, 0, Unbounded), Eol,
                 RepLazy(AnyChar, 0, Unbounded), SectionEnd>>,
        ci |-> FALSE, keep |-> "none", repl |-> R.ENV_FILE],
       \* sk-[a-zA-Z0-9]{32,}|sk_[a-zA-Z0-9_-]{32,}
       Quoted(Alt(<<Cat(<<Lit(T.sk_dash), Rep(Set(Alnum), 32, Unbounded)>>),
                    Cat(<<Lit(T.sk_us),
                          Rep(Set(Alnum \cup {"_", "-"}), 32, Unbounded)>>)>>),
              R.OPENAI_KEY),
       \* ghp_[a-zA-Z0-9]{36,}|ghs_[a-zA-Z0-9]{36,}|gho_[a-zA-Z0-9]{36,}
       Quoted(Alt(<<Cat(<<Lit(T.ghp), Rep(Set(Alnum), 36, Unbounded)>>),
                    Cat(<<Lit(T.ghs), Rep(Set(Alnum), 36, Unbounded)>>),
                    Cat(<<Lit(T.gho), Rep(Set(Alnum), 36, Unbounded)>>)>>),
              R.GITHUB_TOKEN),
       \* xox[pboa]-[a-zA-Z0-9-]{10,}
       Quoted(Cat(<<Lit(T.xox), Set({"p", "b", "o", "a"}), Lit(<<"-">>),
                    Rep(Set(Alnum \cup {"-"}), 10, Unbounded)>>),
              R.SLACK_TOKEN),
       \* (AKIA[0-9A-Z]{16})
       [re |-> <<Lit(T.AKIA), Rep(Set(Digits \cup Uppers), 16, 16)>>,
        ci |-> FALSE, keep |-> "none", repl |-> R.AWS_ACCESS_KEY],
       \* sk_live_[a-zA-Z0-9]{24,}|pk_live_...|sk_test_...|pk_test_...
       Quoted(Alt(<<Cat(<<Lit(T.sk_live), Rep(Set(Alnum), 24, Unbounded)>>),
                    Cat(<<Lit(T.pk_live), Rep(Set(Alnum), 24, Unbounded)>>),
                    Cat(<<Lit(T.sk_test), Rep(Set(Alnum), 24, Unbounded)>>),
                    Cat(<<Lit(T.pk_test), Rep(Set(Alnum), 24, Unbounded)>>)>>),
              R.STRIPE_KEY),
       \* -----BEGIN (RSA |DSA |EC |OPENSSH )?PRIVATE KEY-----[\s\S]*?
       \* -----END (RSA |DSA |EC |OPENSSH )?PRIVATE KEY-----
       [re |-> <<Lit(T.BEGIN), KeyType, Lit(T.PRIVATE_KEY),
                 RepLazy(AnyChar, 0, Unbounded),
                 Lit(T.END), KeyType, Lit(T.PRIVATE_KEY)>>,
        ci |-> FALSE, keep |-> "none", repl |-> R.PRIVATE_KEY],
       \* eyJ[a-zA-Z0-9_-]+\.eyJ[a-zA-Z0-9_-]+\.[a-zA-Z0-9_-]+
       Quoted(Cat(<<Lit(T.eyJ), Rep(Set(Alnum \cup {"_", "-"}), 1, Unbounded),
                    Lit(DOT), Lit(T.eyJ),
                    Rep(Set(Alnum \cup {"_", "-"}), 1, Unbounded),
                    Lit(DOT),
                    Rep(Set(Alnum \cup {"_", "-"}), 1, Unbounded)>>),
              R.JWT_TOKEN),
       \* (password|...|private_key)[\s]*[=:][\s]*['\"]([^'\"]{8,})['\"],
       \* IGNORECASE
       [re |-> <<Alt(<<Lit(T.password), Lit(T.passwd), Lit(T.pwd),
                       Lit(T.secret), Lit(T.api_key), Lit(T.apikey),
                       Lit(T.auth_token), Lit(T.access_token),
                       Lit(T.private_key)>>),
                 Rep(Set(Spaces), 0, Unbounded), Set({"=", ":"}),
                 Rep(Set(Spaces), 0, Unbounded), Set(Quotes),
                 Rep(NotSet(Quotes), 8, Unbounded), Set(Quotes)>>,
        ci |-> TRUE, keep |-> "keyword", repl |-> R.PASSWORD],
       \* (mongodb(\+srv)?|postgres(ql)?|mysql|redis)://[^@\s]+@[^\s]+,
       \* IGNORECASE
       [re |-> <<Alt(<<Cat(<<Lit(T.mongodb), Opt(Lit(T.srv))>>),
                       Cat(<<Lit(T.postgres), Opt(Lit(T.ql))>>),
                       Lit(T.mysql), Lit(T.redis)>>),
                 Lit(T.scheme_sep),
                 Rep(NotSet(Spaces \cup {"@"}), 1, Unbounded), Lit(<<"@">>),
                 Rep(NotSet(Spaces), 1, Unbounded)>>,
        ci |-> TRUE, keep |-> "scheme", repl |-> R.CONNECTION_STRING],
       \* Bearer\s+[a-zA-Z0-9_\-\.]+, IGNORECASE
       [re |-> <<Lit(T.Bearer), Rep(Set(Spaces), 1, Unbounded),
                 Rep(Set(Alnum \cup {"_", "-", "."}), 1, Unbounded)>>,
        ci |-> TRUE, keep |-> "none", repl |-> R.BEARER],
       \* sk-[a-f0-9]{48,}
       Quoted(Cat(<<Lit(T.sk_dash),
                    Rep(Set(Digits \cup {"a", "b", "c", "d", "e", "f"}),
                        48, Unbounded)>>),
              R.DEEPSEEK_KEY),
       \* AIza[0-9A-Za-z\\-_]{35}: the range \\-_ is the characters from
       \* backslash to underscore
       [re |-> <<Lit(T.AIza),
                 Rep(Set(Alnum \cup {"\\", "]", "^", "_"}), 35, 35)>>,
        ci |-> FALSE, keep |-> "none", repl |-> R.GOOGLE_API_KEY] >>

\* The patterns ps[j..] applied to the text one after the other.
RECURSIVE SubAll(_, _, _)
SubAll(ps, j, t) ==
    IF j > Len(ps) THEN t
    ELSE LET redacted == re_sub(ps[j], t, 1)
         IN  IF Len(redacted) >= 0 THEN SubAll(ps, j + 1, redacted)
             ELSE redacted

\* redact_sensitive_data(text)
redact_sensitive_data(text) ==
    SubAll(REDACTION_PATTERNS, 1,
           SubAll([k \in 1..Len(SENSITIVE_FILE_PATTERNS) |->
                      file_pattern(SENSITIVE_FILE_PATTERNS[k])], 1, text))

\* build_prompt: the diff is cut after 8000 characters.
MaxPromptDiff == 8000
truncated_diff(d) ==
    IF Len(d) > MaxPromptDiff THEN SubSeq(d, 1, MaxPromptDiff) ELSE d

\* ---------------------------------------------------- redacting a diff
\* The secrets of the diffs below.
AwsKey ==
    <<"A","K","I","A","0","1","2","3","4","5","6","7","8","9","A","B","C",
      "D","E","F">>
KeyMaterial ==
    <<"M","I","I","E","a","b","c">>

\* The pieces the diffs are made of.
Chunk ==
    [ \* Header of the section of a sensitive file.
      H_env |->
        <<"d","i","f","f"," ","-","-","g","i","t"," ","a","/",".","e","n","v",
          " ","b","/",".","e","n","v","\n">>,
      \* Header of the section of another file.
      H_py |->
        <<"d","i","f","f"," ","-","-","g","i","t"," ","a","/","x",".","p","y",
          " ","b","/","x",".","p","y","\n">>,
      \* An added line.
      L_line |->
        <<"+","A","P","I","=","a","b","c","\n">>,
      \* An added line with an AWS access key.
      L_aws |->
        <<"+","a","w","s"," ","="," ","A","K","I","A","0","1","2","3","4","5",
          "6","7","8","9","A","B","C","D","E","F","\n">>,
      \* The start of an added line that holds a Slack token.
      L_slack |->
        <<"+","k","e","y","s",":"," ","x","o","x","b","-","0","1","2","3","4",
          "5","6","7","8","9">>,
      \* A private key block, from a position inside a line on.
      L_pem |->
        <<"-","-","-","-","-","B","E","G","I","N"," ","R","S","A"," ","P","R",
          "I","V","A","T","E"," ","K","E","Y","-","-","-","-","-","\n","+","M",
          "I","I","E","a","b","c","\n","+","-","-","-","-","-","E","N","D"," ",
          "R","S","A"," ","P","R","I","V","A","T","E"," ","K","E","Y","-","-",
          "-","-","-","\n">>,
      \* An added line with a quoted assignment inside a quoted value.
      L_password |->
        <<"+","p","a","s","s","w","o","r","d","=","\"","s","e","c","r","e","t",
          "=","'","1","2","3","4","5","6","7","8","'","\"","\n">> ]

Chunks == { Chunk[f] : f \in DOMAIN Chunk }

\* Most pieces a diff is made of.
MaxChunks == 2

RECURSIVE Concat(_)
Concat(cs) == IF cs = <<>> THEN <<>> ELSE Head(cs) \o Concat(Tail(cs))

Diffs ==
    UNION { { Concat(cs) : cs \in [1..n -> Chunks] } : n \in 1..MaxChunks }

\* _generate_commit_message reads none of the options of the skip gate.
RedactOptions == { o \in ScoreOptions : o.skip_well_formed }

\* A call of _generate_commit_message on the diff of some commit.
InitRedact ==
    /\ RunState(RedactOptions, {Msg_fixbug}, {1}, {"generate"}, {FALSE},
                {<<>>}, "redact")
    /\ message = <<>>
    /\ scored = NoScore
    /\ diff \in Diffs
    /\ redacted_diff = <<>>

\* _generate_commit_message: the diff is redacted and put into the prompt.
GenerateCommitMessage ==
    /\ pc = "redact"
    /\ redacted_diff' = truncated_diff(redact_sensitive_data(diff))
    /\ calls' = calls \cup {StagedCall}
    /\ Finish("returned")
    /\ UNCHANGED <<inputVars, message, scored, diff, asked, hints, cliVars,
                   repoVars, refs0, commits, idx, message_map,
                   ordered_messages, backup_branch, errors, skipped,
                   filterVars>>

NextRedact == GenerateCommitMessage

SpecRedact == InitRedact /\ [][NextRedact]_vars

\* ----------------------------------------------------------- --branch
\* A second branch of the repository, and a name no branch has.
FeatureBranch == "feature"
MissingBranch == "missing"

\* Quiet runs on the whole history that were given --branch.
BranchOptions ==
    { [o EXCEPT !.branch = b] :
        o \in { x \in Options({DefaultThreshold}) :
                  x.quiet /\ x.max_commits = 0 },
        b \in {FeatureBranch, MissingBranch} }

\* The repository has the branch feature at some commit of main's history;
\* main is checked out.
InitBranch ==
    InitRun(BranchOptions, MsgPool, {"rewrite"}, {FALSE},
            { (FeatureBranch :> p) : p \in 1..MaxLen }, "start")

\* ------------------------------------------------------- rewrite_history
TempFiles == {MappingFile, CounterFile, FilterScript}

\* Mutant: the files are left behind.
CleanupNone(fs) == fs

\* rewrite_history, finally block: each of the three files that exists is
\* unlinked.
Cleanup(fs) == fs \ TempFiles

\* rewrite_history: write the message list, the counter and the script.
RewriteBegin ==
    /\ pc = "apply"
    /\ invoked' = TRUE
    /\ files' = TempFiles
    /\ counter' = 0
    /\ rewritten' = <<>>
    /\ pc' = "filter"
    /\ UNCHANGED <<inputVars, unitVars, asked, hints, cliVars, repoVars, refs0, outcome, engineVars>>

\* filter-msg.py: the message written for the commit the counter is at.
\* An absent or empty entry is falsy and lets the old message through;
\* print() ends the output with a newline.
MsgFilter(messages, n, raw) ==
    LET new_message == IF n < Len(messages) THEN messages[n + 1] ELSE <<>>
        old_message == Strip(raw)
    IN  (IF new_message # <<>> THEN new_message ELSE old_message) \o <<NL>>

\* Mutant: the rebuilt commit takes the tree of its new parent.
RebuiltCommitParentTree(objs, old, messages, n, done) ==
    [tree |-> IF done = <<>> THEN objs[old].tree
              ELSE objs[done[Len(done)]].tree,
     msg |-> MsgFilter(messages, n, objs[old].msg),
     parent |-> IF done = <<>> THEN 0 ELSE done[Len(done)]]

\* git filter-branch --msg-filter: the commit rebuilt from old, with the
\* tree of old, the filtered message and the rebuilt parent.
RebuiltCommit(objs, old, messages, n, done) ==
    [tree |-> objs[old].tree,
     msg |-> MsgFilter(messages, n, objs[old].msg),
     parent |-> IF done = <<>> THEN 0 ELSE done[Len(done)]]

\* git filter-branch walks every commit reachable from HEAD, oldest first.
FilterList == Chain(objects, refs[BranchName])

FilterCommit ==
    /\ pc = "filter"
    /\ Len(rewritten) < Len(FilterList)
    /\ LET old == FilterList[Len(rewritten) + 1]
           obj == RebuiltCommit(objects, old, ordered_messages, counter,
                                rewritten)
           objs2 == StoreCommit(objects, obj)
       IN  /\ objects' = objs2
           /\ rewritten' = Append(rewritten, CommitId(objs2, obj))
    /\ counter' = counter + 1
    /\ UNCHANGED <<inputVars, unitVars, asked, hints, cliVars, refs, refs0, pc, outcome, engineVars, files,
                   invoked>>

\* Mutant: the branch follows every rebuilt commit.
RefsAfterFailureMoved(r, done) ==
    IF done = <<>> THEN r ELSE [r EXCEPT ![BranchName] = done[Len(done)]]

\* The refs after filter-branch stopped with an error: it moves no ref
\* before every commit is rebuilt.
RefsAfterFailure(r, done) == r

\* filter-branch exits non-zero (dirty work tree, filter script failure,
\* interrupted, ...): GitError; the finally block removes the files and
\* rewrite() prints the error with the restore instruction and re-raises.
FilterFail ==
    /\ pc = "filter"
    /\ refs' = RefsAfterFailure(refs, rewritten)
    /\ files' = Cleanup(files)
    /\ hints' = RestoreHint(opts, backup_branch, hints)
    /\ Finish("raised")
    /\ UNCHANGED <<inputVars, unitVars, asked, cliVars, objects, refs0, engineVars, counter, rewritten,
                   invoked>>

\* Mutant: every ref is rewritten (filter-branch -- --all), backup included.
RefsAfterRewriteAll(r, new_tip) ==
    IF new_tip = r[BranchName] THEN r
    ELSE (OriginalRef :> r[BranchName]) @@ [n \in DOMAIN r |-> new_tip]

\* filter-branch, last step: a ref whose commit was rewritten is moved, its
\* old value saved under refs/original/; an unchanged ref is left alone.
RefsAfterRewrite(r, new_tip) ==
    IF new_tip = r[BranchName] THEN r
    ELSE (OriginalRef :> r[BranchName]) @@ [r EXCEPT ![BranchName] = new_tip]

FilterFinish ==
    /\ pc = "filter"
    /\ Len(rewritten) = Len(FilterList)
    /\ refs' = RefsAfterRewrite(refs, rewritten[Len(rewritten)])
    /\ files' = Cleanup(files)
    /\ hints' = RestoreHint(opts, backup_branch, hints)
    /\ Finish("returned")
    /\ UNCHANGED <<inputVars, unitVars, asked, cliVars, objects, refs0, engineVars, counter, rewritten,
                   invoked>>

\* ---------------------------------------------------------- specification
Next ==
    \/ Begin
    \/ AnswerUncommitted
    \/ GetCommits
    \/ AnswerConsent
    \/ AnswerProceed
    \/ CreateBackup
    \/ ScanFetchError
    \/ ScanSkip
    \/ ScanGenerate
    \/ ScanGenerateError
    \/ Decide
    \/ AnswerApply
    \/ RewriteBegin
    \/ FilterCommit
    \/ FilterFail
    \/ FilterFinish
    \/ StagedBegin
    \/ StagedNoChanges
    \/ StagedGenerate
    \/ StagedGenerateError

\* A quiet run asks nothing.
NextBranch ==
    \/ Begin
    \/ GetCommits
    \/ CreateBackup
    \/ ScanFetchError
    \/ ScanSkip
    \/ ScanGenerate
    \/ ScanGenerateError
    \/ Decide
    \/ RewriteBegin
    \/ FilterCommit
    \/ FilterFail
    \/ FilterFinish

SpecBranch == InitBranch /\ [][NextBranch]_vars

Spec == Init /\ [][Next]_vars

TypeOK ==
    /\ pc \in {"start", "ask_uncommitted", "get_commits", "ask_consent",
               "ask_proceed", "backup", "scan", "ask_apply", "apply",
               "filter", "staged_generate", "cli_main", "score",
               "redact", "done"}
    /\ outcome \in {"running", "returned", "raised"}
    /\ (pc = "done") = (outcome # "running")

\* ------------------------------------------------------ runs of the gate
\* Quiet runs against the local provider, over every threshold 0..10, on
\* histories that also hold a conventional message scoring below 10.
GateOptions ==
    { o \in Options(Thresholds) :
        /\ o.provider = "ollama" /\ o.quiet /\ ~o.dry_run
        /\ ~o.skip_backup /\ o.max_commits = 0 }

GatePool == {Msg_Feat, Msg_fixbug}

InitGate == InitWith(GateOptions, GatePool)

NextGate ==
    \/ Begin
    \/ GetCommits
    \/ CreateBackup
    \/ ScanFetchError
    \/ ScanSkip
    \/ ScanGenerate
    \/ ScanGenerateError
    \/ Decide
    \/ RewriteBegin
    \/ FilterCommit
    \/ FilterFail
    \/ FilterFinish

SpecGate == InitGate /\ [][NextGate]_vars

\* ----------------------------------------------------------- properties
\* The history of the branch when the run started and as it is now.
OrigChain == Chain(objects, refs0[BranchName])
NewChain == Chain(objects, refs[BranchName])

Ended == pc = "done"
Succeeded == Ended /\ outcome = "returned" /\ invoked
Failed == Ended /\ outcome = "raised"
ScanEnded == commits # <<>> /\ idx > Len(commits)

\* Position in the history of the i-th commit of the range.
RangePos(i) == Len(OrigChain) - Len(commits) + i

\* The decision for the i-th commit of the range: the generated message
\* (Replace) or the original full message (Keep).
Decision(i) ==
    IF commits[i] \in DOMAIN message_map THEN message_map[commits[i]]
    ELSE get_commit_full_message(objects, commits[i])

\* C1: after a successful rewrite, the i-th commit of the range carries, in
\* the new history, the i-th decision: the generated message when it was
\* Replace, the original full message when it was Keep.
C1_RangeCarriesDecisions ==
    Succeeded =>
        /\ Len(NewChain) = Len(OrigChain)
        /\ \A i \in 1..Len(commits) :
              get_commit_full_message(objects, NewChain[RangePos(i)])
                  = Decision(i)

\* C2: after rewrite_history succeeds, the new chain has as many commits as
\* the original one and the commit at each position has the tree of the
\* original commit at that position.
C2_TreesPreserved ==
    Succeeded =>
        /\ Len(NewChain) = Len(OrigChain)
        /\ \A p \in 1..Len(OrigChain) :
              objects[NewChain[p]].tree = objects[OrigChain[p]].tree

C2_Witness ==
    /\ Succeeded
    /\ Len(OrigChain) >= 2
    /\ \A p \in 1..Len(OrigChain) : NewChain[p] # OrigChain[p]

\* C3: when rewrite_history fails, after any number of rebuilt commits, the
\* branch still points at the pre-rewrite tip.
C3_FailureLeavesBranch ==
    (Failed /\ invoked) => refs[BranchName] = refs0[BranchName]

C3_Witness ==
    /\ Failed /\ invoked
    /\ rewritten # <<>>
    /\ rewritten[Len(rewritten)] # OrigChain[Len(rewritten)]

\* C4: unless skip-backup is set, when rewrite_history is about to be
\* invoked the backup ref of the run exists and points at the branch tip,
\* which is still the pre-rewrite tip.
C4_BackupBeforeRewrite ==
    (pc = "apply" /\ ~opts.skip_backup) =>
        /\ ~opts.dry_run
        /\ backup_branch = BackupName
        /\ BackupName \in DOMAIN refs
        /\ refs[BackupName] = refs0[BranchName]
        /\ refs[BranchName] = refs0[BranchName]

C4_Witness ==
    pc = "apply" /\ ~opts.skip_backup /\ BackupName \in DOMAIN refs

\* C5: from the invocation of rewrite_history on, whether it succeeds or
\* fails, the backup ref of the run exists and points at the pre-rewrite tip.
C5_BackupRetained ==
    (invoked /\ backup_branch # None) =>
        /\ backup_branch \in DOMAIN refs
        /\ refs[backup_branch] = refs0[BranchName]

C5_Witness ==
    /\ Succeeded /\ backup_branch # None
    /\ refs[BranchName] # refs0[BranchName]

\* C6: when the scan ends with no Replace decision, rewrite_history is not
\* invoked and, at the end of the run, the refs are those before the run
\* (the backup created by the run has been deleted).
C6_NoChangesNoTrace ==
    (ScanEnded /\ DOMAIN message_map = {}) =>
        /\ ~invoked
        /\ pc \in {"scan", "done"}
        /\ refs[BranchName] = refs0[BranchName]
        /\ Ended => refs = refs0

C6_Witness ==
    /\ Ended /\ ScanEnded /\ DOMAIN message_map = {}
    /\ backup_branch # None

\* C7: in a dry run rewrite_history is never invoked and the refs are, at
\* the end of the run, those before the run.
C7_DryRunNoMutation ==
    opts.dry_run =>
        /\ ~invoked
        /\ pc \notin {"apply", "filter"}
        /\ refs[BranchName] = refs0[BranchName]
        /\ Ended => refs = refs0

C7_Witness ==
    opts.dry_run /\ Ended /\ DOMAIN message_map # {} /\ ~opts.skip_backup

WellFormed(c) == score_commit_message(get_commit_message(objects, c)).is_good

\* C8: with skip-well-formed, a commit the scorer reports well-formed gets no
\* backend call, its decision is Keep and its entry of the decision list is
\* its original full message.
C8_WellFormedSkipped ==
    opts.skip_well_formed =>
        \A k \in 1..Len(commits) :
            WellFormed(commits[k]) =>
                /\ commits[k] \notin calls
                /\ commits[k] \notin DOMAIN message_map
                /\ ordered_messages # <<>> =>
                      ordered_messages[k]
                          = get_commit_full_message(objects, commits[k])

C8_Witness ==
    /\ opts.skip_well_formed
    /\ ordered_messages # <<>>
    /\ \E k \in 1..Len(commits) :
          WellFormed(commits[k]) /\ commits[k] \in skipped
    /\ calls # {}

\* Commits whose processing ended before the backend could be asked.
NoRequest == errors \ calls

\* C9: with skip-well-formed, the backend is invoked for a processed commit
\* exactly when its score is below the configured minimum quality score.
C9_GateUsesThreshold ==
    opts.skip_well_formed =>
        \A k \in 1..Len(commits) :
            (k < idx /\ commits[k] \notin NoRequest) =>
                (commits[k] \in calls <=>
                    score_commit_message(
                        get_commit_message(objects, commits[k])).score
                      < opts.min_quality_score)

\* C10: a commit whose processing raised keeps its original message, the
\* commits after it are still processed and the run does not abort.
C10_FailSoft ==
    /\ \A k \in 1..Len(commits) :
          commits[k] \in errors =>
              /\ k < idx
              /\ commits[k] \notin DOMAIN message_map
              /\ ordered_messages # <<>> =>
                    ordered_messages[k]
                        = get_commit_full_message(objects, commits[k])
    /\ (Ended /\ errors # {}) =>
          /\ ScanEnded
          /\ Len(ordered_messages) = Len(commits)
          /\ \A k \in 1..Len(commits) :
                commits[k] \in errors \cup skipped \cup calls
          /\ outcome = "raised" => invoked

C10_Witness ==
    /\ Succeeded
    /\ Len(commits) >= 2
    /\ commits[1] \in errors
    /\ commits[2] \in DOMAIN message_map

\* C11: the decision list handed to rewrite_history has one entry per commit
\* of the range, entry i being the decision for commit i, whatever mix of
\* skipped, replaced, unchanged and failed commits the scan produced.
C11_DecisionListPositional ==
    (pc \in {"ask_apply", "apply", "filter"} \/ invoked) =>
        /\ Len(ordered_messages) = Len(commits)
        /\ \A i \in 1..Len(commits) : ordered_messages[i] = Decision(i)

C11_Witness ==
    /\ pc = "apply"
    /\ Len(commits) >= 2
    /\ commits[1] \in errors \cup skipped
    /\ commits[2] \in DOMAIN message_map
    /\ ordered_messages[1] # ordered_messages[2]

\* Consent is neither implied by the provider nor given in advance, and
\* nobody can be asked.
WithheldConsent ==
    opts.provider # "ollama" /\ opts.quiet /\ ~opts.skip_remote_consent

\* C12: with a remote provider, quiet mode and no consent given in advance,
\* in rewrite mode and in staged mode alike, no backend call is made, no
\* backup ref is created and rewrite_history is never invoked.
C12_QuietWithholdsConsent ==
    WithheldConsent =>
        /\ calls = {}
        /\ backup_branch = None
        /\ BackupName \notin DOMAIN refs
        /\ ~invoked
        /\ stdout = <<>>

C12_Witness ==
    /\ WithheldConsent
    /\ mode = "staged" /\ staged_files /\ opts.api_key
    /\ Ended

Prompts == {"uncommitted", "consent", "proceed", "apply"}

\* The answer no was given at prompt p.
DeclinedAt(p) == <<p, "no">> \in asked

\* The prompt p was left with an interrupt.
InterruptedAt(p) == <<p, "interrupt">> \in asked

\* C13: when consent is declined or withheld, in rewrite mode or in staged
\* mode, or a confirmation prompt is declined, the operation ends as a
\* clean abort: nothing is raised to the caller and the exit code is zero.
C13_DeclineIsCleanAbort ==
    (Ended /\ (WithheldConsent \/ \E p \in Prompts : DeclinedAt(p))) =>
        /\ outcome = "returned"
        /\ CliExitCode(outcome) = 0

\* C14 as stated: a decline or an interrupt at any confirmation point
\* leaves the refs exactly those before the run.
C14_DeclineLeavesRefs ==
    (\E p \in Prompts : DeclinedAt(p) \/ InterruptedAt(p)) => refs = refs0

\* C14: a decline or an interrupt at any confirmation point leaves the
\* branch tip unchanged and every ref that existed before the run in place;
\* no ref has been added, except that after the apply prompt the backup ref
\* created by the run remains, pointing at the tip before the run.
C14_DeclineLeavesHistory ==
    \A p \in Prompts :
        (DeclinedAt(p) \/ InterruptedAt(p)) =>
            /\ Ended /\ ~invoked
            /\ refs[BranchName] = refs0[BranchName]
            /\ \A r \in DOMAIN refs0 : r \in DOMAIN refs /\ refs[r] = refs0[r]
            /\ \A r \in DOMAIN refs \ DOMAIN refs0 :
                  /\ p = "apply"
                  /\ r = backup_branch
                  /\ refs[r] = refs0[BranchName]

C14_Witness ==
    /\ InterruptedAt("apply")
    /\ backup_branch # None
    /\ backup_branch \in DOMAIN refs

\* A remote provider is selected and no credential is available.
NoCredential == opts.provider # "ollama" /\ ~opts.api_key

\* C15: with a remote provider and no credential the run fails before any
\* work: no backup ref is created, no commit is scanned, no backend call is
\* made, and the run does not complete normally.
C15_MissingCredentialIsFatal ==
    (NoCredential /\ mode = "rewrite") =>
        /\ backup_branch = None
        /\ idx = 1
        /\ calls = {}
        /\ ~(Ended /\ outcome = "returned" /\ ScanEnded)

\* C16: when rewrite_history fails in a run that created a backup ref, in
\* quiet mode as in interactive mode, the failure comes with restoration
\* instructions naming the backup ref, and the error is raised.
C16_FailureNamesBackup ==
    (Ended /\ invoked /\ outcome # "returned" /\ backup_branch # None) =>
        /\ outcome = "raised"
        /\ backup_branch \in hints

\* C17: in an interactive run rewrite_history is invoked only after the
\* answer yes to the apply prompt, and a run in which that prompt is
\* declined or interrupted never invokes it.
C17_ApplyNeedsConfirmation ==
    ~opts.quiet =>
        /\ (pc \in {"apply", "filter"} \/ invoked) =>
              <<"apply", "yes">> \in asked
        /\ (DeclinedAt("apply") \/ InterruptedAt("apply")) =>
              ~invoked /\ pc = "done"

C17_Witness ==
    /\ ~opts.quiet
    /\ Succeeded
    /\ <<"apply", "yes">> \in asked
    /\ refs[BranchName] # refs0[BranchName]

\* C19: when the number of messages given to rewrite_history differs from
\* the number of commits it rebuilds, it raises before any commit is
\* rebuilt or any ref is moved, and never completes successfully.
C19_CountMismatchIsFatal ==
    (invoked /\ Len(ordered_messages) # Len(OrigChain)) =>
        /\ rewritten = <<>>
        /\ refs[BranchName] = refs0[BranchName]
        /\ Ended => outcome = "raised"

\* C18: the CLI in staged mode, with staged changes, a credential and
\* consent, prints the generated message on standard output, exits with
\* code zero and leaves every ref and commit as it was.
C18_StagedCliPrintsMessage ==
    (/\ mode = "staged" /\ staged_files
     /\ ProviderAvailable(opts)
     /\ check_remote_api_consent(opts) = "yes"
     /\ Ended) =>
        /\ exit_code = 0
        /\ stdout # <<>>
        /\ refs = refs0
        /\ Len(objects) = Len(OrigChain)

\* C20: a requested branch that exists is the one the run enumerates and
\* rewrites; a requested branch that does not exist makes the run fall
\* back to the current branch.
C20_RequestedBranchIsTarget ==
    /\ (opts.branch \in DOMAIN refs0 /\ commits # <<>>) =>
          commits[Len(commits)] = refs0[opts.branch]
    /\ (opts.branch \in DOMAIN refs0 /\ Succeeded) =>
          \A r \in DOMAIN refs0 : refs[r] # refs0[r] => r = opts.branch
    /\ (opts.branch \notin DOMAIN refs0 /\ commits # <<>>) =>
          commits[Len(commits)] = refs0[BranchName]

\* C28: when max-commits N is smaller than the length L of the history, a
\* successful rewrite leaves the L-N commits older than the range with
\* their original messages and trees.
C28_OlderCommitsUntouched ==
    (Succeeded /\ Len(commits) < Len(OrigChain)) =>
        /\ Len(NewChain) = Len(OrigChain)
        /\ \A p \in 1..(Len(OrigChain) - Len(commits)) :
              /\ get_commit_full_message(objects, NewChain[p])
                    = get_commit_full_message(objects, OrigChain[p])
              /\ objects[NewChain[p]].tree = objects[OrigChain[p]].tree

\* C29: on every exit path of rewrite_history, return or failure after the
\* temporary files were written, the message list file, the counter file
\* and the filter script no longer exist; while it runs they do.
C29_TempFilesRemoved ==
    /\ (invoked /\ Ended) => files \cap TempFiles = {}
    /\ pc = "filter" => files = TempFiles

C29_Witness ==
    /\ invoked /\ Ended /\ outcome = "raised"
    /\ counter > 0
    /\ files = {}

\* -------------------------------------------------- properties: scorer
Scored == mode = "score" /\ pc = "done"

\* The message without a final period.
WithoutTrailingPeriod(m) ==
    IF EndsWith(m, ".") THEN SubSeq(m, 1, Len(m) - 1) ELSE m

\* The message is a placeholder, alone or followed by " commit", up to
\* case and one final period.
IsPlaceholder(m) ==
    \E g \in generic_messages :
        WithoutTrailingPeriod(Lower(m)) \in {g, g \o SP \o W.commit}

\* C21: a message that, lower-cased and without a final period, is one of
\* the generic placeholders, alone or followed by " commit", scores below
\* 7, is not well-formed at the default threshold and is reported as too
\* generic.
C21_PlaceholdersScoreLow ==
    (Scored /\ IsPlaceholder(message)) =>
        /\ scored.score < 7
        /\ ~scored.is_good
        /\ ~is_well_formed(message, DefaultThreshold)
        /\ \E k \in DOMAIN scored.reasons : scored.reasons[k] = "too generic"

C21_Witness ==
    /\ Scored
    /\ message = Capitalize(W.wip) \o SP \o W.commit \o DOT

HasReason(r) == \E k \in DOMAIN scored.reasons : scored.reasons[k] = r

SingleLine(m) == \A k \in DOMAIN m : m[k] # NL

\* C22: a single-line message in the conventional format with a first line
\* of 10 to 72 characters scores at least 7, is well-formed at the default
\* threshold and is reported as following the conventional format.
C22_ConventionalScoresHigh ==
    (/\ Scored
     /\ SingleLine(message)
     /\ conventional_pattern(message)
     /\ Len(message) >= 10 /\ Len(message) <= 72) =>
        /\ scored.score >= 7
        /\ scored.is_good
        /\ is_well_formed(message, DefaultThreshold)
        /\ HasReason("follows conventional format")

C22_Witness ==
    /\ Scored
    /\ conventional_pattern(message)
    /\ Len(message) = 72
    /\ EndsWith(message, ".")
    /\ ~HasReason("uses present tense")

\* The points the reasons of the result stand for.
PointsOf(r) ==
    IF r = "follows conventional format" THEN 4
    ELSE IF r \in {"appropriate length", "descriptive"} THEN 2
    ELSE IF r \in {"uses present tense", "no trailing period"} THEN 1
    ELSE 0

RECURSIVE SumPoints(_)
SumPoints(rs) == IF rs = <<>> THEN 0 ELSE PointsOf(Head(rs)) + SumPoints(Tail(rs))

\* C23: the length criterion gives its 2 points exactly when the first line
\* has 10 to 72 characters; otherwise it gives none and reports "too short"
\* below 10 and "too long" above 72; every result has exactly one of the
\* three length reasons.
C23_LengthCriterion ==
    Scored =>
        LET n == Len(FirstLine(message))
        IN  /\ HasReason("appropriate length") <=> (10 <= n /\ n <= 72)
            /\ HasReason("too short") <=> n < 10
            /\ HasReason("too long") <=> n > 72
            /\ Cardinality({ k \in DOMAIN scored.reasons :
                   scored.reasons[k] \in {"appropriate length", "too short",
                                          "too long"} }) = 1
            /\ scored.score = SumPoints(scored.reasons)

C23_Witness ==
    /\ Scored
    /\ Len(FirstLine(message)) = 73
    /\ HasReason("too long")
    /\ scored.score = 8

\* The first line starts with type, optional scope, colon, space and a
\* lower-case character, the type being one of the fixed set.
TypedPrefixThenLower(m) ==
    \E t \in ConventionalTypes :
        /\ HasPrefix(m, t)
        /\ \E r \in AfterOptionalScope(Drop(m, Len(t))) :
              Len(r) >= 3 /\ r[1] = ":" /\ r[2] = " " /\ IsLower(r[3])

\* C27: the present-tense point is given exactly when the first line starts
\* with a type(scope): prefix of the fixed set followed by a lower-case
\* character; a message with no type before the colon never gets it.
C27_PresentTenseNeedsType ==
    Scored =>
        (HasReason("uses present tense") <=> TypedPrefixThenLower(message))

\* C30: a score of 7 or more implies the conventional format; no message
\* without the conventional prefix is well-formed at the default threshold,
\* and with skip-well-formed the scan never skips such a message.
C30_WellFormedImpliesConventional ==
    Scored =>
        /\ scored.score >= 7 => conventional_pattern(message)
        /\ ~conventional_pattern(message) =>
              /\ ~scored.is_good
              /\ ~is_well_formed(message, DefaultThreshold)
              /\ ~ShouldSkip(opts, message)

C30_Witness ==
    /\ Scored
    /\ ~conventional_pattern(message)
    /\ opts.skip_well_formed
    /\ scored.score = 6

\* ----------------------------------------------- properties: redaction
Redacted == mode = "generate" /\ pc = "done"

\* The text s occurs in the text t.
Contains(t, s) ==
    \E i \in 1..(Len(t) - Len(s) + 1) : SubSeq(t, i, i + Len(s) - 1) = s

\* C24: redaction is idempotent: redacting the redacted diff again changes
\* nothing.
C24_RedactionIdempotent ==
    Redacted => redact_sensitive_data(redacted_diff) = redacted_diff

\* The private key block of Chunk.L_pem, from BEGIN to END.
PemBlock == SubSeq(Chunk.L_pem, 1, Len(Chunk.L_pem) - 1)

\* C25: for a diff that holds an AWS access key or a PEM private key
\* block, the redacted diff, which is the diff part of the prompt, holds
\* neither the key nor the key material of the block.
C25_SecretsNeverInPrompt ==
    Redacted =>
        /\ Contains(diff, AwsKey) => ~Contains(redacted_diff, AwsKey)
        /\ Contains(diff, PemBlock) => ~Contains(redacted_diff, KeyMaterial)

\* C26: the section of a sensitive file is replaced as a whole, header and
\* content lines up to the next header or the end: no content line of it
\* remains in the output; the sections of other files are kept.
C26_SensitiveSectionHidden ==
    Redacted =>
        /\ \A c \in Chunks \ {Chunk.H_env, Chunk.H_py} :
              HasPrefix(diff, Chunk.H_env \o c) => ~Contains(redacted_diff, c)
        /\ HasPrefix(diff, Chunk.H_py \o Chunk.L_line) =>
              HasPrefix(redacted_diff, Chunk.H_py \o Chunk.L_line)

====
